---- MODULE Spec2Model ----
(***************************************************************************)
(* Model of source/core/errors.ts: the RequestError constructor (context   *)
(* resolution, property visibility, stack-trace merge) and its seven       *)
(* subclasses.                                                             *)
(*                                                                         *)
(* A JavaScript string is a sequence of atoms (an atom stands for a run of *)
(* characters that is never split: a stack frame, a word of a message,     *)
(* the newline).  An optional value is a sequence of length 0 (undefined)  *)
(* or 1 (the value).  An object property is a descriptor record.           *)
(***************************************************************************)
EXTENDS Integers, Sequences, FiniteSets, TLC

VARIABLES err, pc, args, writes

vars == <<err, pc, args, writes>>

\* ---------------------------------------------------------------- bounds
\* Longest call stack (in frames) of the constructing code and of a cause.
MaxFrames == 2
\* Most assignments a holder of an error makes to it.
MaxWrites == 2

\* ------------------------------------------------------- optional values
Undefined == <<>>
Def(v) == <<v>>
IsDef(o) == o # <<>>
Val(o) == o[1]

Min(a, b) == IF a < b THEN a ELSE b
Max(a, b) == IF a > b THEN a ELSE b

\* ------------------------------------------------------ string functions
NL == "\n"

\* t occurs in s at the 0-based position i
OccursAt(s, t, i) ==
  /\ i + Len(t) <= Len(s)
  /\ \A j \in 1..Len(t) : s[i + j] = t[j]

\* String.prototype.indexOf: first 0-based position of t in s, or -1
IndexOf(s, t) ==
  IF \E i \in 0..Len(s) : OccursAt(s, t, i)
  THEN CHOOSE i \in 0..Len(s) :
         OccursAt(s, t, i) /\ \A j \in 0..(i - 1) : ~OccursAt(s, t, j)
  ELSE -1

\* String.prototype.slice(start)
Slice(s, start) ==
  LET from == IF start < 0 THEN Max(Len(s) + start, 0) ELSE Min(start, Len(s))
  IN  SubSeq(s, from + 1, Len(s))

\* String.prototype.slice(0, end)
SliceTo(s, end) ==
  LET to == IF end < 0 THEN Max(Len(s) + end, 0) ELSE Min(end, Len(s))
  IN  SubSeq(s, 1, to)

\* String.prototype.split('\n'): the lines of s (one empty line for '')
RECURSIVE Split(_)
Split(s) ==
  IF \E i \in 1..Len(s) : s[i] = NL
  THEN LET i == CHOOSE k \in 1..Len(s) :
                  s[k] = NL /\ \A j \in 1..(k - 1) : s[j] # NL
       IN  <<SubSeq(s, 1, i - 1)>> \o Split(SubSeq(s, i + 1, Len(s)))
  ELSE <<s>>

\* Array.prototype.join('\n')
RECURSIVE Join(_)
Join(lines) ==
  IF lines = <<>> THEN <<>>
  ELSE IF Len(lines) = 1 THEN lines[1]
  ELSE lines[1] \o <<NL>> \o Join(Tail(lines))

\* Array.prototype.reverse
Reverse(a) == [i \in 1..Len(a) |-> a[Len(a) + 1 - i]]

\* ------------------------------------------------------ property records
Keys ==
  {"name", "message", "code", "stack", "options", "request", "response",
   "timings", "event"}

NoProp ==
  [own |-> FALSE, value |-> Undefined, enumerable |-> FALSE, writable |-> TRUE]

\* a fresh object without own properties
EmptyObject == [k \in Keys |-> NoProp]

\* a property the Error constructor / captureStackTrace creates: writable,
\* not enumerable
Builtin(o, k, v) ==
  [o EXCEPT ![k] =
     [own |-> TRUE, value |-> v, enumerable |-> FALSE, writable |-> TRUE]]

\* a mutant: the descriptor says enumerable: true
DefinePropertyEnumerable(o, k, v) ==
  [o EXCEPT ![k] =
     [own |-> TRUE, value |-> v, enumerable |-> TRUE, writable |-> FALSE]]

\* a mutant: the field is set by plain assignment
DefinePropertyAssigned(o, k, v) ==
  [o EXCEPT ![k] =
     [own |-> TRUE, value |-> v, enumerable |-> TRUE, writable |-> TRUE]]

\* Object.defineProperty(o, k, {enumerable: false, value: v}) on a property
\* the object does not have yet: writable and configurable default to false
DefineProperty(o, k, v) ==
  [o EXCEPT ![k] =
     [own |-> TRUE, value |-> v, enumerable |-> FALSE, writable |-> FALSE]]

\* o.k = v: creates an enumerable writable property, writes a writable one,
\* and leaves a non-writable one as it is (a TypeError in strict code)
Assign(o, k, v) ==
  IF ~o[k].own
  THEN [o EXCEPT ![k] =
          [own |-> TRUE, value |-> v, enumerable |-> TRUE, writable |-> TRUE]]
  ELSE IF o[k].writable
  THEN [o EXCEPT ![k].value = v]
  ELSE o

\* o.k: an own property's value, else what Error.prototype gives
Get(o, k) ==
  IF o[k].own THEN o[k].value
  ELSE IF k = "message" THEN Def(<<>>)
  ELSE IF k = "name" THEN Def("Error")
  ELSE Undefined

\* Object.keys(o)
EnumerableKeys(o) == {k \in Keys : o[k].own /\ o[k].enumerable}

\* ------------------------------------------------ collaborating objects
\* An object as this file reads it: has_onResponse is '_onResponse' in x; the
\* other fields are optional.  A Request has the marker, options, and maybe a
\* response and timings; an Options object has a url and a redirect limit.
MkOptions(scheme, max) ==
  [has_onResponse |-> FALSE, options |-> Undefined, response |-> Undefined,
   timings |-> Undefined, url |-> Def([scheme |-> scheme]),
   maxRedirects |-> Def(max)]

MkRequest(o, r, t) ==
  [has_onResponse |-> TRUE, options |-> Def(o), response |-> r,
   timings |-> t, url |-> Undefined, maxRedirects |-> Undefined]

NoObject ==
  [has_onResponse |-> FALSE, options |-> Undefined, response |-> Undefined,
   timings |-> Undefined, url |-> Undefined, maxRedirects |-> Undefined]

OptionsSet == {MkOptions("ftp", 10), MkOptions("ws", 3)}

Responses ==
  {[statusCode |-> 404, statusMessage |-> <<"Not Found">>],
   [statusCode |-> 500, statusMessage |-> <<"Internal Server Error">>]}

TimingsSet == {[start |-> 100], [start |-> 200]}

Requests ==
  {MkRequest(o, r, t) :
     o \in OptionsSet,
     r \in {Undefined} \cup {Def(x) : x \in Responses},
     t \in {Undefined, Def([start |-> 100])}}

\* URL.prototype.protocol: the scheme followed by ':'
Protocol(url) == <<url.scheme, ":">>

\* ------------------------------------------------------------ stacks
FrameNames == {"f1", "f2"}

\* the call stacks: sequences of at most MaxFrames frames, innermost first
FrameSeqs == UNION {[1..n -> FrameNames] : n \in 0..MaxFrames}

Messages == {<<>>, <<"boom">>}

\* the first line of a stack: the error's name, and its message if not empty
ErrorHeader(msg) ==
  IF msg = <<>> THEN <<"Error">> ELSE <<"Error", ": ">> \o msg

RECURSIVE FrameLines(_)
FrameLines(frames) ==
  IF frames = <<>> THEN <<>>
  ELSE <<NL, Head(frames)>> \o FrameLines(Tail(frames))

\* Error.captureStackTrace: the header line, then a line for each frame
CaptureStackTrace(msg, frames) == ErrorHeader(msg) \o FrameLines(frames)

\* the causes: Partial<Error & {code?: string}>; the stack is one captured
\* when the cause was created, under the message it had then
EmptyCause ==
  [code |-> Undefined, message |-> Undefined, stack |-> Undefined,
   event |-> Undefined]

Causes ==
  [code : {Undefined, Def("ECONNREFUSED")},
   message : {Undefined} \cup {Def(m) : m \in Messages},
   stack : {Undefined} \cup
           {Def(CaptureStackTrace(m, f)) : m \in Messages, f \in FrameSeqs},
   event : {Undefined}]

\* the causes of a timeout carry the event that timed out
TimedOutCauses == {[c EXCEPT !.event = Def("socket")] : c \in Causes}

\* ------------------------------------------------ RequestError constructor
\* a mutant: a request is recognised by the response it holds
isRequestByResponse(x) == IsDef(x.response)

\* isRequest(x): '_onResponse' in x
isRequest(x) == x.has_onResponse

\* super(message); Error.captureStackTrace(this, this.constructor):
\* message is an own property unless undefined was passed
SuperError(message, frames) ==
  LET o1 == IF IsDef(message)
            THEN Builtin(EmptyObject, "message", message)
            ELSE EmptyObject
  IN  Builtin(o1, "stack",
              Def(CaptureStackTrace(Val(Get(o1, "message")), frames)))

\* a mutant: the configuration is always taken to be the context value
ResolveContextSelfAsOptions(o, self) ==
  IF isRequest(self)
  THEN DefineProperty(
         DefineProperty(
           DefineProperty(o, "request", Def(self)),
           "response", self.response),
         "options", Def(self))
  ELSE DefineProperty(o, "options", Def(self))

\* if (isRequest(self)) {...} else {...}: request, response and options are
\* defined non-enumerable
ResolveContext(o, self) ==
  IF isRequest(self)
  THEN DefineProperty(
         DefineProperty(
           DefineProperty(o, "request", Def(self)),
           "response", self.response),
         "options", self.options)
  ELSE DefineProperty(o, "options", Def(self))

\* this.timings = this.request?.timings
ResolveTimings(o) ==
  Assign(o, "timings",
         IF IsDef(Get(o, "request"))
         THEN Val(Get(o, "request")).timings
         ELSE Undefined)

\* while (errorStackTrace.length > 0 && errorStackTrace[0] === thisStackTrace[0])
\*   thisStackTrace.shift();
RECURSIVE RemoveDuplicated(_, _)
RemoveDuplicated(thisStackTrace, errorStackTrace) ==
  IF /\ Len(errorStackTrace) > 0
     /\ Len(thisStackTrace) > 0
     /\ errorStackTrace[1] = thisStackTrace[1]
  THEN RemoveDuplicated(Tail(thisStackTrace), errorStackTrace)
  ELSE thisStackTrace

\* the stack the constructor assigns when the cause has one
MergedStack(thisStack, thisMessage, errorStack, errorMessage) ==
  LET indexOfMessage == IndexOf(thisStack, thisMessage) + Len(thisMessage)
      thisStackTrace == Reverse(Split(Slice(thisStack, indexOfMessage)))
      errorStackTrace ==
        Reverse(Split(Slice(errorStack,
                            IndexOf(errorStack, errorMessage)
                              + Len(errorMessage))))
      kept == RemoveDuplicated(thisStackTrace, errorStackTrace)
  IN  SliceTo(thisStack, indexOfMessage)
        \o Join(Reverse(kept)) \o Join(Reverse(errorStackTrace))

\* the outcome of a constructor: the object, or an exception
Returned(o) == [threw |-> FALSE, obj |-> o]
Thrown == [threw |-> TRUE, obj |-> EmptyObject]

\* if (is.string(error.stack) && is.string(this.stack)) {...}:
\* error.message!.length throws a TypeError when the cause has no message
RecoverStack(o, error) ==
  IF IsDef(error.stack) /\ IsDef(Get(o, "stack"))
  THEN IF ~IsDef(error.message)
       THEN Thrown
       ELSE Returned(
              Assign(o, "stack",
                     Def(MergedStack(Val(Get(o, "stack")),
                                     Val(Get(o, "message")),
                                     Val(error.stack),
                                     Val(error.message)))))
  ELSE Returned(o)

\* new RequestError(message, error, self), called with the stack frames
RequestErrorCtor(message, error, self, frames) ==
  LET o1 == SuperError(message, frames)
      o2 == Assign(o1, "name", Def("RequestError"))
      o3 == Assign(o2, "code", error.code)
      o4 == ResolveContext(o3, self)
      o5 == ResolveTimings(o4)
  IN  RecoverStack(o5, error)

\* a subclass constructor's statements after super(...)
Then(r, k, v) == IF r.threw THEN r ELSE Returned(Assign(r.obj, k, v))

\* ------------------------------------------------------------ subclasses
MaxRedirectsErrorCtor(request, frames) ==
  Then(RequestErrorCtor(
         Def(<<"Redirected ",
               ToString(Val(Val(request.options).maxRedirects)),
               " times. Aborting.">>),
         EmptyCause, request, frames),
       "name", Def("MaxRedirectsError"))

\* new HTTPError(response): owner is response.request
HTTPErrorCtor(response, owner, frames) ==
  Then(RequestErrorCtor(
         Def(<<"Response code ", ToString(response.statusCode), " (">>
               \o response.statusMessage \o <<")">>),
         EmptyCause, owner, frames),
       "name", Def("HTTPError"))

\* a mutant: the subclass does not set its name
CacheErrorCtorUnnamed(error, request, frames) ==
  RequestErrorCtor(error.message, error, request, frames)

CacheErrorCtor(error, request, frames) ==
  Then(RequestErrorCtor(error.message, error, request, frames),
       "name", Def("CacheError"))

UploadErrorCtor(error, request, frames) ==
  Then(RequestErrorCtor(error.message, error, request, frames),
       "name", Def("UploadError"))

\* a mutant: the timings argument is not stored
TimeoutErrorCtorNoTimings(error, timings, request, frames) ==
  Then(Then(RequestErrorCtor(error.message, error, request, frames),
            "name", Def("TimeoutError")),
       "event", error.event)

TimeoutErrorCtor(error, timings, request, frames) ==
  Then(Then(Then(RequestErrorCtor(error.message, error, request, frames),
                 "name", Def("TimeoutError")),
            "event", error.event),
       "timings", timings)

ReadErrorCtor(error, request, frames) ==
  Then(RequestErrorCtor(error.message, error, request, frames),
       "name", Def("ReadError"))

UnsupportedProtocolErrorCtor(options, frames) ==
  Then(RequestErrorCtor(
         Def(<<"Unsupported protocol \"">> \o Protocol(Val(options.url))
               \o <<"\"">>),
         EmptyCause, options, frames),
       "name", Def("UnsupportedProtocolError"))

\* ------------------------------------------------------------ state machine
\* err: the error object last constructed; pc: "idle", "done" (a constructor
\* returned err) or "threw" (it raised an exception); args: what the
\* constructor was called with; writes: the fields the holder assigned since
NoArgs ==
  [variant |-> "none", message |-> Undefined, error |-> EmptyCause,
   self |-> NoObject, timings |-> Undefined, response |-> Undefined,
   frames |-> <<>>]

Init ==
  /\ err = EmptyObject
  /\ pc = "idle"
  /\ args = NoArgs
  /\ writes = <<>>

\* where a constructor call ends
Outcome(r) == IF r.threw THEN "threw" ELSE "done"

NewRequestError(Msgs, Errors, Selves, Stacks) ==
  /\ pc = "idle"
  /\ \E message \in Msgs, error \in Errors, self \in Selves, frames \in Stacks :
       LET r == RequestErrorCtor(Def(message), error, self, frames)
       IN  /\ err' = r.obj
           /\ pc' = Outcome(r)
           /\ args' = [NoArgs EXCEPT !.variant = "RequestError",
                             !.message = Def(message), !.error = error,
                             !.self = self, !.frames = frames]
           /\ writes' = <<>>

NewMaxRedirectsError(Reqs, Stacks) ==
  /\ pc = "idle"
  /\ \E request \in Reqs, frames \in Stacks :
       LET r == MaxRedirectsErrorCtor(request, frames)
       IN  /\ err' = r.obj
           /\ pc' = Outcome(r)
           /\ args' = [NoArgs EXCEPT !.variant = "MaxRedirectsError",
                             !.self = request, !.frames = frames]
           /\ writes' = <<>>

NewHTTPError(Reqs, Stacks) ==
  /\ pc = "idle"
  /\ \E response \in Responses, owner \in Reqs, frames \in Stacks :
       LET r == HTTPErrorCtor(response, owner, frames)
       IN  /\ err' = r.obj
           /\ pc' = Outcome(r)
           /\ args' = [NoArgs EXCEPT !.variant = "HTTPError",
                             !.response = Def(response),
                             !.self = owner, !.frames = frames]
           /\ writes' = <<>>

NewCacheError(Errors, Reqs, Stacks) ==
  /\ pc = "idle"
  /\ \E error \in Errors, request \in Reqs, frames \in Stacks :
       LET r == CacheErrorCtor(error, request, frames)
       IN  /\ err' = r.obj
           /\ pc' = Outcome(r)
           /\ args' = [NoArgs EXCEPT !.variant = "CacheError", !.error = error,
                             !.self = request, !.frames = frames]
           /\ writes' = <<>>

NewUploadError(Errors, Reqs, Stacks) ==
  /\ pc = "idle"
  /\ \E error \in Errors, request \in Reqs, frames \in Stacks :
       LET r == UploadErrorCtor(error, request, frames)
       IN  /\ err' = r.obj
           /\ pc' = Outcome(r)
           /\ args' = [NoArgs EXCEPT !.variant = "UploadError", !.error = error,
                             !.self = request, !.frames = frames]
           /\ writes' = <<>>

NewTimeoutError(Errors, Reqs, Stacks) ==
  /\ pc = "idle"
  /\ \E error \in Errors, timings \in TimingsSet, request \in Reqs,
     frames \in Stacks :
       LET r == TimeoutErrorCtor(error, Def(timings), request, frames)
       IN  /\ err' = r.obj
           /\ pc' = Outcome(r)
           /\ args' = [NoArgs EXCEPT !.variant = "TimeoutError", !.error = error,
                             !.timings = Def(timings),
                             !.self = request, !.frames = frames]
           /\ writes' = <<>>

NewReadError(Errors, Reqs, Stacks) ==
  /\ pc = "idle"
  /\ \E error \in Errors, request \in Reqs, frames \in Stacks :
       LET r == ReadErrorCtor(error, request, frames)
       IN  /\ err' = r.obj
           /\ pc' = Outcome(r)
           /\ args' = [NoArgs EXCEPT !.variant = "ReadError", !.error = error,
                             !.self = request, !.frames = frames]
           /\ writes' = <<>>

NewUnsupportedProtocolError(Stacks) ==
  /\ pc = "idle"
  /\ \E options \in OptionsSet, frames \in Stacks :
       LET r == UnsupportedProtocolErrorCtor(options, frames)
       IN  /\ err' = r.obj
           /\ pc' = Outcome(r)
           /\ args' = [NoArgs EXCEPT !.variant = "UnsupportedProtocolError",
                             !.self = options, !.frames = frames]
           /\ writes' = <<>>

\* the value a holder assigns to field k
WriteValue(k) ==
  CASE k \in {"message", "stack"} -> Def(<<"tampered">>)
    [] k \in {"name", "code", "event"} -> Def("tampered")
    [] k \in {"options", "request"} -> Def(NoObject)
    [] k = "response" -> Def([statusCode |-> 0, statusMessage |-> <<>>])
    [] k = "timings" -> Def([start |-> 0])

\* the holder of the error assigns to one of its fields: error.k = v
Write ==
  /\ pc = "done"
  /\ Len(writes) < MaxWrites
  /\ \E k \in Keys :
       /\ err' = Assign(err, k, WriteValue(k))
       /\ writes' = Append(writes, k)
  /\ UNCHANGED <<pc, args>>

\* the error (or the exception) is dropped
Release ==
  /\ pc \in {"done", "threw"}
  /\ err' = EmptyObject
  /\ pc' = "idle"
  /\ args' = NoArgs
  /\ writes' = <<>>

\* every constructor, on every cause, context and call stack
Next ==
  \/ NewRequestError(Messages, Causes, Requests \cup OptionsSet, FrameSeqs)
  \/ NewMaxRedirectsError(Requests, FrameSeqs)
  \/ NewHTTPError(Requests, FrameSeqs)
  \/ NewCacheError(Causes, Requests, FrameSeqs)
  \/ NewUploadError(Causes, Requests, FrameSeqs)
  \/ NewTimeoutError(TimedOutCauses, Requests, FrameSeqs)
  \/ NewReadError(Causes, Requests, FrameSeqs)
  \/ NewUnsupportedProtocolError(FrameSeqs)
  \/ Release

Spec == Init /\ [][Next]_vars

\* the errors a holder then assigns to: built on one call stack from a cause
\* with or without a stack
HeldMessages == {<<"boom">>}
HeldStacks == {<<"f1">>}
HeldCauses ==
  {c \in Causes :
     /\ c.code = Def("ECONNREFUSED")
     /\ c.message = Def(<<"boom">>)
     /\ c.stack \in {Undefined, Def(CaptureStackTrace(<<"boom">>, <<>>))}}
HeldTimedOutCauses == {[c EXCEPT !.event = Def("socket")] : c \in HeldCauses}
HeldRequests == {q \in Requests : q.options = Def(MkOptions("ftp", 10))}

NextHeld ==
  \/ NewRequestError(HeldMessages, HeldCauses, HeldRequests \cup OptionsSet,
                     HeldStacks)
  \/ NewMaxRedirectsError(HeldRequests, HeldStacks)
  \/ NewHTTPError(HeldRequests, HeldStacks)
  \/ NewCacheError(HeldCauses, HeldRequests, HeldStacks)
  \/ NewUploadError(HeldCauses, HeldRequests, HeldStacks)
  \/ NewTimeoutError(HeldTimedOutCauses, HeldRequests, HeldStacks)
  \/ NewReadError(HeldCauses, HeldRequests, HeldStacks)
  \/ NewUnsupportedProtocolError(HeldStacks)
  \/ Write
  \/ Release

SpecHeld == Init /\ [][NextHeld]_vars

\* ------------------------------------------------------------ properties
\* the fields of the error, read directly
Request == Get(err, "request")
Response == Get(err, "response")
Timings == Get(err, "timings")
Options == Get(err, "options")

CauseVariants == {"CacheError", "UploadError", "TimeoutError", "ReadError"}
RequestVariants ==
  CauseVariants \cup {"MaxRedirectsError", "HTTPError"}

\* what construction resolves the context fields to
ResolvedRequest == IF isRequest(args.self) THEN Def(args.self) ELSE Undefined
ResolvedResponse == IF isRequest(args.self) THEN args.self.response ELSE Undefined
ResolvedOptions == IF isRequest(args.self) THEN args.self.options ELSE Def(args.self)
ResolvedTimings ==
  IF args.variant = "TimeoutError" THEN args.timings
  ELSE IF isRequest(args.self) THEN args.self.timings
  ELSE Undefined

ReadsResolved ==
  /\ Request = ResolvedRequest
  /\ Response = ResolvedResponse
  /\ Options = ResolvedOptions
  /\ Timings = ResolvedTimings

\* C1 (as claimed): the own enumerable keys of a constructed error never
\* include request, response, timings or options, and reading each of these
\* fields gives the value resolved at construction.
C1_NoContextKeyEnumerable ==
  pc = "done" =>
    /\ EnumerableKeys(err) \cap {"request", "response", "timings", "options"} = {}
    /\ ReadsResolved

\* C1 (amended): the own enumerable keys of a constructed error never include
\* request, response or options; timings is an ordinary assigned field and is
\* among the enumerable keys; reading each of the four fields gives the value
\* resolved at construction.
C1_HiddenContextEnumerableTimings ==
  pc = "done" =>
    /\ EnumerableKeys(err) \cap {"request", "response", "options"} = {}
    /\ "timings" \in EnumerableKeys(err)
    /\ ReadsResolved

C1_Witness ==
  /\ pc = "done"
  /\ IsDef(Request) /\ IsDef(Response) /\ IsDef(Timings) /\ IsDef(Options)
  /\ EnumerableKeys(err) = {"name", "code", "timings"}

\* C3 (as claimed): response and timings, when present, are the response and
\* timings of the error's own request, on every variant.
C3_ContextOnlyFromRequest ==
  pc = "done" =>
    /\ IsDef(Response) => IsDef(Request) /\ Response = Val(Request).response
    /\ IsDef(Timings) => IsDef(Request) /\ Timings = Val(Request).timings

\* C3 (amended): response, when present, is the response of the error's own
\* request on every variant; timings, when present, is the timings of the
\* error's own request on every variant but TimeoutError, whose timings is the
\* timings argument of its constructor, supplied separately from the request.
C3_ContextFromRequestOrTimeoutArgument ==
  pc = "done" =>
    /\ IsDef(Response) => IsDef(Request) /\ Response = Val(Request).response
    /\ args.variant # "TimeoutError" /\ IsDef(Timings) =>
         IsDef(Request) /\ Timings = Val(Request).timings
    /\ args.variant = "TimeoutError" => Timings = args.timings

C3_Witness ==
  /\ pc = "done"
  /\ args.variant = "TimeoutError"
  /\ IsDef(Response)
  /\ IsDef(Val(Request).timings)
  /\ Timings # Val(Request).timings

C6_ContextResolution ==
  pc = "done" =>
    IF args.self.has_onResponse
    THEN /\ Request = Def(args.self)
         /\ Options = args.self.options
         /\ Response = args.self.response
    ELSE /\ Options = Def(args.self)
         /\ Request = Undefined
         /\ Response = Undefined

C6_Witness ==
  /\ pc = "done"
  /\ args.variant = "RequestError"
  /\ args.self.has_onResponse
  /\ Request = Def(args.self)
  /\ IsDef(Response)
  /\ Options # Def(args.self)

\* the message of the variant's template; proto is what the template shows of
\* the configuration's url
TemplateMessage(proto) ==
  CASE args.variant = "MaxRedirectsError" ->
         Def(<<"Redirected ",
               ToString(Val(Val(args.self.options).maxRedirects)),
               " times. Aborting.">>)
    [] args.variant = "HTTPError" ->
         Def(<<"Response code ", ToString(Val(args.response).statusCode),
               " (">> \o Val(args.response).statusMessage \o <<")">>)
    [] args.variant = "UnsupportedProtocolError" ->
         Def(<<"Unsupported protocol \"">> \o proto \o <<"\"">>)
    [] OTHER -> args.error.message

NameMessageCode(proto) ==
  pc = "done" /\ args.variant \in RequestVariants \cup {"UnsupportedProtocolError"} =>
    /\ Get(err, "name") = Def(args.variant)
    /\ IsDef(TemplateMessage(proto)) => Get(err, "message") = TemplateMessage(proto)
    /\ Get(err, "code") =
         IF args.variant \in CauseVariants THEN args.error.code ELSE Undefined

\* C7 (as claimed): each variant's name is the variant name, its code the
\* cause's code (absent without a cause) and its message the template, where
\* UnsupportedProtocolError shows the url's scheme: 'Unsupported protocol "ftp"'.
C7_TemplatesShowScheme ==
  NameMessageCode(IF IsDef(args.self.url)
                  THEN <<Val(args.self.url).scheme>> ELSE <<>>)

\* C7 (amended): as claimed, but UnsupportedProtocolError shows the url's
\* protocol, the scheme followed by ':': 'Unsupported protocol "ftp:"'.
C7_TemplatesShowProtocol ==
  NameMessageCode(IF IsDef(args.self.url)
                  THEN <<Val(args.self.url).scheme, ":">> ELSE <<>>)

C7_Witness ==
  /\ pc = "done"
  /\ args.variant = "UnsupportedProtocolError"
  /\ Get(err, "message") = Def(<<"Unsupported protocol \"", "ftp", ":", "\"">>)
  /\ Get(err, "name") = Def("UnsupportedProtocolError")

\* C10 (as claimed): the response field of an HTTPError is the response it was
\* built from, also when the response's request holds another response or none.
C10_HTTPErrorKeepsItsResponse ==
  pc = "done" /\ args.variant = "HTTPError" => Response = args.response

\* ------------------------------------------------------ trace properties
\* the lines of the error's stack
MergedLines == Split(Val(Get(err, "stack")))

\* the frames of the constructing call stack, each as a line
WrapperFrames == [i \in 1..Len(args.frames) |-> <<args.frames[i]>>]

\* the cause's stack after its message, and the lines of it that hold a frame
CauseAfterMessage ==
  LET stack == Val(args.error.stack)
      message == Val(args.error.message)
  IN  Slice(stack, IndexOf(stack, message) + Len(message))

CauseFrames == SelectSeq(Split(CauseAfterMessage), LAMBDA line : line # <<>>)

\* the cause's stack is its header line, ending in its message, and frames
CauseWellFormed ==
  /\ IsDef(args.error.stack)
  /\ IsDef(args.error.message)
  /\ Val(args.error.message) # <<>>
  /\ \E f \in FrameSeqs :
       Val(args.error.stack) = CaptureStackTrace(Val(args.error.message), f)

\* the length of the longest common suffix of a and b
SharedLength(a, b) ==
  LET shared(k) == \A j \in 0..(k - 1) : a[Len(a) - j] = b[Len(b) - j]
  IN  CHOOSE k \in 0..Min(Len(a), Len(b)) :
        /\ shared(k)
        /\ \A m \in (k + 1)..Min(Len(a), Len(b)) : ~shared(m)

Count(x, seq) == Cardinality({i \in 1..Len(seq) : seq[i] = x})

\* C2 (as claimed): when the cause's frames and the wrapper's frames end in a
\* common suffix, each frame of that suffix (a frame that either trace holds
\* once) is held once by the merged trace.
C2_SharedFramesOnce ==
  pc = "done" /\ CauseWellFormed =>
    LET n == SharedLength(WrapperFrames, CauseFrames)
    IN  \A j \in 0..(n - 1) :
          LET frame == CauseFrames[Len(CauseFrames) - j]
          IN  Count(frame, WrapperFrames) = 1 /\ Count(frame, CauseFrames) = 1
                => Count(frame, MergedLines) = 1

\* C5 (as claimed): no constructor call throws, whatever the message, the
\* cause and the context.
C5_ConstructionNeverFails == pc # "threw"

\* C9 (as claimed): when the cause has a trace, the merged trace is the error's
\* own header line, then the wrapper's frames but for a run at their outermost
\* end, then every frame line of the cause in order, each on a line of its own
\* (stated of a wrapper and a cause that both have a frame).
C9_TraceComposition ==
  pc = "done" /\ IsDef(args.error.stack)
    /\ WrapperFrames # <<>> /\ Len(CauseFrames) > 1 =>
    \E k \in 0..Len(WrapperFrames) :
      MergedLines =
        <<ErrorHeader(Val(Get(err, "message")))>>
          \o SubSeq(WrapperFrames, 1, k) \o CauseFrames

\* ----------------------------------------------------- holder properties
\* C8 (as claimed): once a constructor has returned, no assignment changes any
\* field of the error.
C8_Immutable ==
  [][pc = "done" /\ pc' = "done" => err' = err]_vars

\* C8 (amended): once a constructor has returned, no assignment changes the
\* fields it defined with Object.defineProperty: options on every error, and
\* request and response on an error built from a request.  (name, message,
\* code, stack, timings and event are ordinary writable fields.)
C8_DefinedFieldsKeepTheirValue ==
  [][pc = "done" /\ pc' = "done" =>
       /\ Get(err', "options") = Get(err, "options")
       /\ isRequest(args.self) =>
            /\ Get(err', "request") = Get(err, "request")
            /\ Get(err', "response") = Get(err, "response")]_vars

C8_Witness ==
  /\ pc = "done"
  /\ isRequest(args.self)
  /\ writes = <<"options", "request">>
  /\ Options = args.self.options
  /\ Request = Def(args.self)

====
